---- MODULE Spec2Model ----
(***************************************************************************)
(* Model of the ECOS conic-solver interface of CVXPY                       *)
(* (cvxpy/reductions/solvers/conic_solvers/ecos_conif.py).                 *)
(*                                                                         *)
(* One run of the interface is  apply -> solve_via_data -> invert, with    *)
(* solve_via_data / invert repeatable against the retained inverse data.   *)
(* Matrices are modelled by their row layout: a row of A, G (and of b, h)  *)
(* is the pair <<constraint id, element index>> it was extracted from.     *)
(* The dual vectors of the solver are symbolic: entry i of y (z) is the    *)
(* record [vec |-> "y" ("z"), row |-> i], so that the scatter of invert    *)
(* can be compared with the row layout of apply.                           *)
(***************************************************************************)
EXTENDS Integers, Sequences, FiniteSets, TLC

\* ------------------------------------------------------------------ bounds
MaxConstrs == 3
MaxSolves == 2

\* ---------------------------------------------------------------- helpers
None == <<>>
Some(v) == <<v>>

RECURSIVE SumSeq(_)
SumSeq(q) == IF q = <<>> THEN 0 ELSE Head(q) + SumSeq(Tail(q))

RECURSIVE Flatten(_)
Flatten(ss) == IF ss = <<>> THEN <<>> ELSE Head(ss) \o Flatten(Tail(ss))

EmptyMap == [k \in {} |-> 0]

\* ------------------------------------------------- constraints (collaborators)
\* np.prod(c.size): the element count of a (rows, cols) shape.
np_prod(shape) == shape[1] * shape[2]

\* c.cone_sizes() of an SOC constraint.
cone_sizes(c) == c.cone_sizes

\* c.num_cones() of an ExpCone constraint.
num_cones(c) == c.num_cones

\* Total element count of a constraint.
elem_count(c) ==
    CASE c.kind = "SOC"     -> SumSeq(cone_sizes(c))
      [] c.kind = "ExpCone" -> 3 * num_cones(c)
      [] OTHER              -> np_prod(c.size)

\* Constraint kinds of the adapter (Zero = equality, NonPos = inequality).
SUPPORTED_CONSTRAINTS == <<"Zero", "NonPos", "SOC", "ExpCone">>

\* The constraint shapes the problems are built from; "PSD" is a kind the
\* adapter does not support.
Shapes ==
    { [kind |-> "Zero",    size |-> <<2, 1>>, cone_sizes |-> <<>>,     num_cones |-> 0],
      [kind |-> "NonPos",  size |-> <<1, 2>>, cone_sizes |-> <<>>,     num_cones |-> 0],
      [kind |-> "SOC",     size |-> <<0, 0>>, cone_sizes |-> <<2, 3>>, num_cones |-> 0],
      [kind |-> "ExpCone", size |-> <<0, 0>>, cone_sizes |-> <<>>,     num_cones |-> 2],
      [kind |-> "PSD",     size |-> <<2, 2>>, cone_sizes |-> <<>>,     num_cones |-> 0] }

\* A constraint is a shape with an identity; the identity of the k-th
\* constraint of a problem is 10 + k.
WithIds(shapes) ==
    [k \in 1..Len(shapes) |->
        [id |-> 10 + k, kind |-> shapes[k].kind, size |-> shapes[k].size,
         cone_sizes |-> shapes[k].cone_sizes, num_cones |-> shapes[k].num_cones]]

ConstraintLists ==
    UNION { { WithIds(ss) : ss \in [1..n -> Shapes] } : n \in 0..MaxConstrs }

\* Objectives: Minimize / Maximize of an affine expression coeff*x + offset.
Objectives ==
    { [NAME |-> nm, args |-> <<[coeff |-> <<2>>, offset |-> <<d>>]>>] :
        nm \in {"minimize", "maximize"}, d \in {0, 5} }

\* problem.variables(): zero, one or two variable blocks.
VariableLists == { <<>>, << [id |-> 100] >>, << [id |-> 100], [id |-> 101] >> }

Problems ==
    { [objective |-> o, variables |-> vs, constraints |-> cs] :
        o \in Objectives, vs \in VariableLists, cs \in ConstraintLists }

\* ------------------------------------------------------ apply's collaborators
\* ConicSolver.get_coeff_offset(expr): the (coefficient, offset vector) pair
\* of an affine expression.
get_coeff_offset(expr) == <<expr.coeff, expr.offset>>

OfKind(constraints, kind) == SelectSeq(constraints, LAMBDA c : c.kind = kind)

\* group_constraints(constraints): one ordered sublist per kind, each in the
\* original relative order; fails on a kind outside the four recognised ones.
group_constraints(constraints) ==
    [ raised  |-> IF \E k \in 1..Len(constraints) :
                        constraints[k].kind \notin
                            { SUPPORTED_CONSTRAINTS[j] : j \in 1..Len(SUPPORTED_CONSTRAINTS) }
                  THEN "UnsupportedConstraint" ELSE "",
      Zero    |-> OfKind(constraints, "Zero"),
      NonPos  |-> OfKind(constraints, "NonPos"),
      SOC     |-> OfKind(constraints, "SOC"),
      ExpCone |-> OfKind(constraints, "ExpCone") ]

\* Order of exponential cone arguments for solver (0-based positions).
EXP_CONE_ORDER_identity == <<0, 1, 2>>

EXP_CONE_ORDER == <<0, 2, 1>>

\* The coordinate of an exponential cone that the order places at 0-based
\* position j of the cone's three rows.
CoordAt(exp_cone_order, j) == CHOOSE i \in 0..2 : exp_cone_order[i + 1] = j

\* Rows of one constraint in the stacked matrix: the element indices of the
\* constraint in order, except that coordinate i of every exponential cone is
\* placed at position exp_cone_order[i] of that cone's three rows.
format_constr(c, exp_cone_order) ==
    [ p \in 1..elem_count(c) |->
        IF c.kind = "ExpCone"
        THEN <<c.id, 3 * ((p - 1) \div 3) + CoordAt(exp_cone_order, (p - 1) % 3) + 1>>
        ELSE <<c.id, p>> ]

\* group_coeff_offset(constraints, exp_cone_order): row-stacking of every
\* constraint's rows in list order; the matrix and the offset vector have the
\* same row layout.
group_coeff_offset(constraints, exp_cone_order) ==
    LET rows == Flatten([k \in 1..Len(constraints) |->
                            format_constr(constraints[k], exp_cone_order)])
    IN  <<rows, rows>>

\* ------------------------------------------------------------------- apply
\* data[s.DIMS]: l, q, e of the grouped constraints.
dims_of(constr_map) ==
    [ l |-> SumSeq([k \in 1..Len(constr_map.NonPos) |-> np_prod(constr_map.NonPos[k].size)]),
      q |-> Flatten([k \in 1..Len(constr_map.SOC) |-> cone_sizes(constr_map.SOC[k])]),
      e |-> SumSeq([k \in 1..Len(constr_map.ExpCone) |-> num_cones(constr_map.ExpCone[k])]) ]

neq_constr_soc_first(constr_map) == constr_map.SOC \o constr_map.NonPos \o constr_map.ExpCone

\* neq_constr = constr_map[NonPos] + constr_map[SOC] + constr_map[ExpCone]
neq_constr_of(constr_map) == constr_map.NonPos \o constr_map.SOC \o constr_map.ExpCone

\* inv_data[s.OFFSET] = data[s.OFFSET][0]
inv_offset(offset) == offset[1]

Raised(exc) == [raised |-> exc, data |-> None, inv_data |-> None]

\* The body of apply once the variable id and the objective are read.
apply_body(problem, constr_map) ==
    LET co  == get_coeff_offset(problem.objective.args[1])
        eq  == group_coeff_offset(constr_map.Zero, EXP_CONE_ORDER)
        neq == neq_constr_of(constr_map)
        gh  == group_coeff_offset(neq, EXP_CONE_ORDER)
    IN  [ raised   |-> "",
          data     |-> Some([ c |-> co[1], offset |-> co[2],
                              A |-> eq[1], b |-> eq[2],
                              dims |-> dims_of(constr_map),
                              G |-> gh[1], h |-> gh[2] ]),
          inv_data |-> Some([ VAR_ID     |-> problem.variables[1].id,
                              OFFSET     |-> inv_offset(co[2]),
                              EQ_CONSTR  |-> constr_map.Zero,
                              NEQ_CONSTR |-> neq ]) ]

\* A variant of apply that goes on with the recognised constraints when the
\* grouping fails.
apply_swallow(problem) ==
    IF Len(problem.variables) = 0 THEN Raised("IndexError")
    ELSE apply_body(problem, group_constraints(problem.constraints))

\* ECOS.apply(problem): (data, inv_data), or the exception it raises.
\* problem.variables()[0] raises IndexError on an empty list; an exception of
\* group_constraints propagates; nothing else is checked.
apply(problem) ==
    IF Len(problem.variables) = 0 THEN Raised("IndexError")
    ELSE LET constr_map == group_constraints(problem.constraints)
         IN  IF constr_map.raised # "" THEN Raised(constr_map.raised)
             ELSE apply_body(problem, constr_map)

\* --------------------------------------------------------- status tables
\* Solver exit codes without an entry in STATUS_MAP that the solver step of
\* the model may also return.
UnknownCodes == {3, -5}

STATUS_MAP_default_optimal ==
    [code \in {0, 1, 2, 10, 11, 12, -1, -2, -3, -4, -7} \cup UnknownCodes |->
        CASE code = 1  -> "INFEASIBLE"
          [] code = 2  -> "UNBOUNDED"
          [] code = 10 -> "OPTIMAL_INACCURATE"
          [] code = 11 -> "INFEASIBLE_INACCURATE"
          [] code = 12 -> "UNBOUNDED_INACCURATE"
          [] code < 0 /\ code \notin UnknownCodes -> "SOLVER_ERROR"
          [] OTHER     -> "OPTIMAL"]

\* Map of ECOS status to CVXPY status.
STATUS_MAP ==
    (0 :> "OPTIMAL") @@ (1 :> "INFEASIBLE") @@ (2 :> "UNBOUNDED") @@
    (10 :> "OPTIMAL_INACCURATE") @@ (11 :> "INFEASIBLE_INACCURATE") @@
    (12 :> "UNBOUNDED_INACCURATE") @@
    (-1 :> "SOLVER_ERROR") @@ (-2 :> "SOLVER_ERROR") @@ (-3 :> "SOLVER_ERROR") @@
    (-4 :> "SOLVER_ERROR") @@ (-7 :> "SOLVER_ERROR")

\* s.SOLUTION_PRESENT: the statuses that carry a solution.
SOLUTION_PRESENT == {"OPTIMAL", "OPTIMAL_INACCURATE"}

\* ------------------------------------------------------ invert's collaborators
\* Solution(status, opt_val, primal_vars, dual_vars, attr)
Solution(status, opt_val, primal_vars, dual_vars, attr) ==
    [ status |-> status, opt_val |-> Some(opt_val), primal_vars |-> Some(primal_vars),
      dual_vars |-> Some(dual_vars), attr |-> attr ]

\* failure_solution(status): the canonical failure Solution, carrying only
\* the status.
failure_solution(status) ==
    [ status |-> status, opt_val |-> None, primal_vars |-> None,
      dual_vars |-> None, attr |-> EmptyMap ]

\* The dual value of one constraint: its consecutive segment of result_vec,
\* from offset on, with the rows of every exponential cone put back from the
\* solver's order into the constraint's coordinate order.
dual_segment(result_vec, c, offset) ==
    [ k \in 1..elem_count(c) |->
        IF c.kind = "ExpCone"
        THEN result_vec[offset + 3 * ((k - 1) \div 3) + EXP_CONE_ORDER[((k - 1) % 3) + 1] + 1]
        ELSE result_vec[offset + k] ]

RECURSIVE get_dual_values_from(_, _, _)
get_dual_values_from(result_vec, constraints, offset) ==
    IF constraints = <<>> THEN EmptyMap
    ELSE LET c == Head(constraints)
         IN  (c.id :> dual_segment(result_vec, c, offset)) @@
             get_dual_values_from(result_vec, Tail(constraints), offset + elem_count(c))

\* ConicSolver.get_dual_values(result_vec, constraints): a new map from
\* constraint id to that constraint's dual value.
get_dual_values(result_vec, constraints) ==
    get_dual_values_from(result_vec, constraints, 0)

\* ------------------------------------------------------------------ invert
\* Timing data
invert_attr(solution) ==
    [ SOLVE_TIME |-> solution.info.timing.tsolve,
      SETUP_TIME |-> solution.info.timing.tsetup,
      NUM_ITERS  |-> solution.info.iter ]

invert_opt_val_no_offset(solution, inverse_data) == solution.info.pcost

\* opt_val = primal_val + inverse_data[s.OFFSET]
invert_opt_val(solution, inverse_data) ==
    LET primal_val == solution.info.pcost
    IN  primal_val + inverse_data.OFFSET

\* primal_vars = {inverse_data[self.VAR_ID]: solution['x']}
invert_primal_vars(solution, inverse_data) == inverse_data.VAR_ID :> solution.x

invert_dual_vars_no_update(solution, inverse_data) ==
    LET eq_dual  == get_dual_values(solution.y, inverse_data.EQ_CONSTR)
        leq_dual == get_dual_values(solution.z, inverse_data.NEQ_CONSTR)
    IN  eq_dual

\* eq_dual, leq_dual from y, z; eq_dual.update(leq_dual); dual_vars = eq_dual
invert_dual_vars(solution, inverse_data) ==
    LET eq_dual  == get_dual_values(solution.y, inverse_data.EQ_CONSTR)
        leq_dual == get_dual_values(solution.z, inverse_data.NEQ_CONSTR)
    IN  leq_dual @@ eq_dual

\* What invert hands back: the exception or the Solution, and the two
\* argument objects as the call leaves them.
InvertRaised(exc, solution, inverse_data) ==
    [ raised |-> exc, value |-> None, solution |-> solution, inverse_data |-> inverse_data ]

InvertReturned(value, solution, inverse_data) ==
    [ raised |-> "", value |-> Some(value), solution |-> solution, inverse_data |-> inverse_data ]

invert_always_populated(solution, inverse_data) ==
    IF solution.info.exitFlag \notin DOMAIN STATUS_MAP
    THEN InvertRaised("KeyError", solution, inverse_data)
    ELSE InvertReturned(Solution(STATUS_MAP[solution.info.exitFlag],
                                 invert_opt_val(solution, inverse_data),
                                 invert_primal_vars(solution, inverse_data),
                                 invert_dual_vars(solution, inverse_data),
                                 invert_attr(solution)),
                        solution, inverse_data)

invert_stores_opt_val(solution, inverse_data) ==
    IF solution.info.exitFlag \notin DOMAIN STATUS_MAP
    THEN InvertRaised("KeyError", solution, inverse_data)
    ELSE LET status == STATUS_MAP[solution.info.exitFlag]
         IN  IF status \in SOLUTION_PRESENT
             THEN InvertReturned(Solution(status,
                                          invert_opt_val(solution, inverse_data),
                                          invert_primal_vars(solution, inverse_data),
                                          invert_dual_vars(solution, inverse_data),
                                          invert_attr(solution)),
                                 solution,
                                 [inverse_data EXCEPT
                                    !.OFFSET = invert_opt_val(solution, inverse_data)])
             ELSE InvertReturned(failure_solution(status), solution, inverse_data)

\* ECOS.invert(solution, inverse_data).  The lookup in STATUS_MAP raises
\* KeyError for an exit code that is not a key; the function stores into
\* neither of its arguments.
invert(solution, inverse_data) ==
    IF solution.info.exitFlag \notin DOMAIN STATUS_MAP
    THEN InvertRaised("KeyError", solution, inverse_data)
    ELSE LET status == STATUS_MAP[solution.info.exitFlag]
         IN  IF status \in SOLUTION_PRESENT
             THEN InvertReturned(Solution(status,
                                          invert_opt_val(solution, inverse_data),
                                          invert_primal_vars(solution, inverse_data),
                                          invert_dual_vars(solution, inverse_data),
                                          invert_attr(solution)),
                                 solution, inverse_data)
             ELSE InvertReturned(failure_solution(status), solution, inverse_data)

\* ---------------------------------------------------------- solve_via_data
\* ecos.solve(c, G, h, dims, A, b, verbose, **solver_opts): opaque.  The raw
\* result has one equality dual per row of A and one cone dual per row of G.
ExitCodes == DOMAIN STATUS_MAP \cup UnknownCodes

PCosts == {3}

ecos_solve(data, exitFlag, pcost) ==
    [ x    |-> <<4, -1>>,
      y    |-> [i \in 1..Len(data.A) |-> [vec |-> "y", row |-> i]],
      z    |-> [i \in 1..Len(data.G) |-> [vec |-> "z", row |-> i]],
      info |-> [ exitFlag |-> exitFlag, pcost |-> pcost, iter |-> 9,
                 timing |-> [tsolve |-> 7, tsetup |-> 2] ] ]

\* ------------------------------------------------------------ state machine
VARIABLES
    problem,      \* the problem handed to apply
    pc,           \* "start", "applied", "apply_raised", "solved", "inverted", "invert_raised"
    applied,      \* what apply returned or raised
    solution,     \* the raw result of the last solve_via_data (None before the first)
    result,       \* what invert returned or raised for the current raw result (None before)
    solver_calls  \* number of solve_via_data calls so far

vars == <<problem, pc, applied, solution, result, solver_calls>>

Init ==
    /\ problem \in Problems
    /\ pc = "start"
    /\ applied = None
    /\ solution = None
    /\ result = None
    /\ solver_calls = 0

\* The caller runs apply once per problem instance.
Apply ==
    /\ pc = "start"
    /\ LET r == apply(problem)
       IN  /\ applied' = Some(r)
           /\ pc' = IF r.raised = "" THEN "applied" ELSE "apply_raised"
    /\ UNCHANGED <<problem, solution, result, solver_calls>>

\* solve_via_data on the data apply returned; possibly repeated (warm start).
SolveViaData ==
    /\ pc \in {"applied", "solved", "inverted", "invert_raised"}
    /\ solver_calls < MaxSolves
    /\ \E exitFlag \in ExitCodes, pcost \in PCosts :
          solution' = Some(ecos_solve(applied[1].data[1], exitFlag, pcost))
    /\ solver_calls' = solver_calls + 1
    /\ result' = None
    /\ pc' = "solved"
    /\ UNCHANGED <<problem, applied>>

\* invert on the last raw result and the retained inverse data; may be called
\* again with the same arguments.
Invert ==
    /\ pc \in {"solved", "inverted", "invert_raised"}
    /\ LET r == invert(solution[1], applied[1].inv_data[1])
       IN  /\ result' = Some([raised |-> r.raised, value |-> r.value])
           /\ solution' = Some(r.solution)
           /\ applied' = Some([applied[1] EXCEPT !.inv_data = Some(r.inverse_data)])
           /\ pc' = IF r.raised = "" THEN "inverted" ELSE "invert_raised"
    /\ UNCHANGED <<problem, solver_calls>>

Next == Apply \/ SolveViaData \/ Invert

Spec == Init /\ [][Next]_vars

\* ------------------------------------------------- vocabulary of the claims
ApplyReturned == pc \notin {"start", "apply_raised"}
Data == applied[1].data[1]
InvData == applied[1].inv_data[1]
Raw == solution[1]
InvertDone == pc \in {"inverted", "invert_raised"}
Returned == pc = "inverted"
Sol == result[1].value[1]

Constrs == { problem.constraints[k] : k \in 1..Len(problem.constraints) }
ById(id) == CHOOSE c \in Constrs : c.id = id
IsEq(c) == c.kind = "Zero"
NonEq == { c \in Constrs : ~IsEq(c) }

\* Position of a kind in the row order of G.
Rank(c) == CASE c.kind = "NonPos" -> 1 [] c.kind = "SOC" -> 2 [] c.kind = "ExpCone" -> 3 [] OTHER -> 0

\* Element count of a constraint, from its shape.
Elems(c) ==
    CASE c.kind = "SOC"     -> SumSeq(c.cone_sizes)
      [] c.kind = "ExpCone" -> 3 * c.num_cones
      [] OTHER              -> c.size[1] * c.size[2]

\* Sum of f over the constraints of one kind, and concatenation of the SOC
\* cone sizes, both along the original constraint list.
RECURSIVE ElemsOfKind(_, _)
ElemsOfKind(cs, kind) ==
    IF cs = <<>> THEN 0
    ELSE (IF Head(cs).kind = kind THEN Elems(Head(cs)) ELSE 0) + ElemsOfKind(Tail(cs), kind)

RECURSIVE SocSizes(_)
SocSizes(cs) ==
    IF cs = <<>> THEN <<>>
    ELSE (IF Head(cs).kind = "SOC" THEN Head(cs).cone_sizes ELSE <<>>) \o SocSizes(Tail(cs))

RECURSIVE ExpTriples(_)
ExpTriples(cs) ==
    IF cs = <<>> THEN 0
    ELSE (IF Head(cs).kind = "ExpCone" THEN Head(cs).num_cones ELSE 0) + ExpTriples(Tail(cs))

\* The rows of M hold every element of every constraint of cset exactly once.
HoldsExactly(M, cset) ==
    /\ \A i \in DOMAIN M : \E c \in cset : M[i][1] = c.id /\ M[i][2] \in 1..Elems(c)
    /\ \A c \in cset : \A k \in 1..Elems(c) :
          Cardinality({ i \in DOMAIN M : M[i] = <<c.id, k>> }) = 1

\* The row of M that holds element k of constraint c.
RowOf(M, c, k) == CHOOSE i \in DOMAIN M : M[i] = <<c.id, k>>

\* Number of rows of M before the block of constraint c.
Base(M, c) == Cardinality({ i \in DOMAIN M : \E j \in DOMAIN M : j > i /\ M[j][1] = c.id
                                              /\ M[i][1] # c.id })

\* The list cl is made of the constraints of cset, by rank and then in the
\* original relative order.
OrderedList(cl, cset) ==
    /\ { cl[i] : i \in DOMAIN cl } = cset
    /\ \A i, j \in DOMAIN cl : i < j =>
          \/ Rank(cl[i]) < Rank(cl[j])
          \/ Rank(cl[i]) = Rank(cl[j]) /\ cl[i].id < cl[j].id

\* The constraint ids of the row blocks of M, in order of appearance.
RECURSIVE BlockIds(_)
BlockIds(M) ==
    IF M = <<>> THEN <<>>
    ELSE LET rest == BlockIds(Tail(M))
         IN  IF rest # <<>> /\ Head(rest) = Head(M)[1] THEN rest ELSE <<Head(M)[1]>> \o rest

IdsOf(cl) == [i \in DOMAIN cl |-> cl[i].id]

\* -------------------------------------------------------------------- C1
\* C1: for every exit code of the table invert returns a Solution whose status
\* is the table's entry (0 optimal, 1 infeasible, 2 unbounded, 10/11/12 their
\* inaccurate variants, every negative code of the table solver error); for an
\* exit code outside the table invert raises the lookup error (KeyError, the
\* unknown-exit-code failure) and returns no Solution.
C1_StatusTotality ==
    InvertDone =>
        LET code == Raw.info.exitFlag
        IN  IF code \in {0, 1, 2, 10, 11, 12, -1, -2, -3, -4, -7}
            THEN /\ result[1].raised = ""
                 /\ Sol.status =
                       CASE code = 0  -> "OPTIMAL"
                         [] code = 1  -> "INFEASIBLE"
                         [] code = 2  -> "UNBOUNDED"
                         [] code = 10 -> "OPTIMAL_INACCURATE"
                         [] code = 11 -> "INFEASIBLE_INACCURATE"
                         [] code = 12 -> "UNBOUNDED_INACCURATE"
                         [] OTHER     -> "SOLVER_ERROR"
            ELSE /\ result[1].raised = "KeyError"
                 /\ result[1].value = None

C1_Witness == pc = "invert_raised" /\ Raw.info.exitFlag = -5

\* -------------------------------------------------------------------- C2
\* C2: in apply's output the rows of G are all NonPos rows, then all SOC rows,
\* then all ExpCone rows, each kind in the original relative order of its
\* constraints and cone by cone; dims.l is the element count of the NonPos
\* constraints, dims.q the in-order concatenation of the SOC cone sizes,
\* dims.e the number of exponential-cone triples; rows(A) is the element count
\* of the equality constraints and rows(G) = dims.l + sum(dims.q) + 3*dims.e.
C2_RowLayout ==
    ApplyReturned =>
        LET G  == Data.G
            A  == Data.A
            d  == Data.dims
            cs == problem.constraints
        IN  /\ HoldsExactly(G, NonEq)
            /\ HoldsExactly(A, Constrs \ NonEq)
            /\ \A i, j \in DOMAIN G : i < j =>
                  \/ Rank(ById(G[i][1])) < Rank(ById(G[j][1]))
                  \/ /\ Rank(ById(G[i][1])) = Rank(ById(G[j][1]))
                     /\ G[i][1] <= G[j][1]
                     /\ G[i][1] = G[j][1] /\ ById(G[i][1]).kind = "SOC" => G[i][2] < G[j][2]
                     /\ G[i][1] = G[j][1] /\ ById(G[i][1]).kind = "ExpCone" =>
                            (G[i][2] - 1) \div 3 <= (G[j][2] - 1) \div 3
            /\ d.l = ElemsOfKind(cs, "NonPos")
            /\ d.q = SocSizes(cs)
            /\ d.e = ExpTriples(cs)
            /\ Len(A) = ElemsOfKind(cs, "Zero")
            /\ Len(G) = d.l + SumSeq(d.q) + 3 * d.e
            /\ Data.h = G /\ Data.b = A

C2_Witness ==
    /\ ApplyReturned
    /\ Len(problem.constraints) = 3
    /\ problem.constraints[1].kind = "ExpCone"
    /\ problem.constraints[2].kind = "SOC"
    /\ problem.constraints[3].kind = "NonPos"
    /\ Data.G[1][1] = 13

\* -------------------------------------------------------------------- C3
\* C3: the equality list and the non-equality list of the inverse data are the
\* ordered lists A and G were built from (equalities in original order;
\* non-equalities NonPos, then SOC, then ExpCone, each in original order), and
\* for a solution-present result the dual map has exactly one entry per
\* constraint of the problem, of the constraint's element count, which is the
\* constraint's consecutive segment of y (equalities) or z (the others).
C3_DualRecovery ==
    /\ ApplyReturned =>
          /\ OrderedList(InvData.EQ_CONSTR, Constrs \ NonEq)
          /\ OrderedList(InvData.NEQ_CONSTR, NonEq)
          /\ BlockIds(Data.A) = IdsOf(InvData.EQ_CONSTR)
          /\ BlockIds(Data.G) = IdsOf(InvData.NEQ_CONSTR)
    /\ Returned /\ Sol.dual_vars # None =>
          LET dual == Sol.dual_vars[1]
          IN  /\ DOMAIN dual = { c.id : c \in Constrs }
              /\ \A c \in Constrs :
                    LET M == IF IsEq(c) THEN Data.A ELSE Data.G
                        v == IF IsEq(c) THEN "y" ELSE "z"
                    IN  /\ Len(dual[c.id]) = Elems(c)
                        /\ { dual[c.id][k] : k \in 1..Elems(c) } =
                              { [vec |-> v, row |-> Base(M, c) + k] : k \in 1..Elems(c) }
                        /\ c.kind # "ExpCone" =>
                              \A k \in 1..Elems(c) :
                                 dual[c.id][k] = [vec |-> v, row |-> RowOf(M, c, k)]

C3_Witness ==
    /\ Returned /\ Sol.dual_vars # None
    /\ Len(problem.constraints) = 3
    /\ problem.constraints[1].kind = "SOC"
    /\ problem.constraints[2].kind = "Zero"
    /\ problem.constraints[3].kind = "Zero"
    /\ Sol.dual_vars[1][13] = <<[vec |-> "y", row |-> 3], [vec |-> "y", row |-> 4]>>

C5_AttributesAlways ==
    Returned =>
        Sol.attr = [ SOLVE_TIME |-> Raw.info.timing.tsolve,
                     SETUP_TIME |-> Raw.info.timing.tsetup,
                     NUM_ITERS  |-> Raw.info.iter ]

\* -------------------------------------------------------------------- C6
\* C6: the Solution invert returns has a primal map, a dual map and a defined
\* optimal value exactly when the translated status is solution-present; then
\* the primal map has the single entry  recorded variable id -> raw x;
\* otherwise (e.g. exit code 1, infeasible) it is the failure Solution with
\* the translated status, no primal map, no dual map, no optimal value.
C6_ShapeFollowsStatus ==
    Returned =>
        /\ Sol.status = STATUS_MAP[Raw.info.exitFlag]
        /\ IF Sol.status \in SOLUTION_PRESENT
           THEN /\ Sol.opt_val # None /\ Sol.dual_vars # None /\ Sol.primal_vars # None
                /\ DOMAIN Sol.primal_vars[1] = {problem.variables[1].id}
                /\ Sol.primal_vars[1][problem.variables[1].id] = Raw.x
           ELSE Sol.opt_val = None /\ Sol.dual_vars = None /\ Sol.primal_vars = None
        /\ Raw.info.exitFlag = 1 =>
              /\ Sol.status = "INFEASIBLE"
              /\ Sol.opt_val = None /\ Sol.dual_vars = None /\ Sol.primal_vars = None

C6_Witness == Returned /\ Raw.info.exitFlag = 1 /\ Sol.primal_vars = None

\* -------------------------------------------------------------------- C7
\* C7: apply records element 0 of the objective's offset vector in the inverse
\* data, and for every solution-present result the optimal value is the raw
\* primal cost plus that offset (offset 5 and primal cost 3 give 8); the
\* primal vector is the raw x and the duals are entries of y and z, none of
\* them shifted by the offset.
C7_OffsetCorrectness ==
    LET offset == problem.objective.args[1].offset[1]
    IN  /\ ApplyReturned => InvData.OFFSET = offset /\ Data.offset = <<offset>>
        /\ Returned /\ Sol.opt_val # None =>
              /\ Sol.opt_val = <<Raw.info.pcost + offset>>
              /\ offset = 5 /\ Raw.info.pcost = 3 => Sol.opt_val = <<8>>
              /\ \A v \in DOMAIN Sol.primal_vars[1] : Sol.primal_vars[1][v] = Raw.x
              /\ \A id \in DOMAIN Sol.dual_vars[1] :
                    \A k \in DOMAIN Sol.dual_vars[1][id] :
                       \/ \E i \in DOMAIN Raw.y : Sol.dual_vars[1][id][k] = Raw.y[i]
                       \/ \E i \in DOMAIN Raw.z : Sol.dual_vars[1][id][k] = Raw.z[i]

C7_Witness ==
    /\ Returned /\ Sol.opt_val = <<8>>
    /\ problem.objective.args[1].offset = <<5>>
    /\ Raw.info.pcost = 3

\* -------------------------------------------------------------------- C8
HasUnsupported == \E c \in Constrs : c.kind \notin {"Zero", "NonPos", "SOC", "ExpCone"}

C9_MalformedRejected ==
    pc # "start" /\ (problem.objective.NAME # "minimize" \/ Len(problem.variables) # 1) =>
        applied[1].raised = "MalformedObjective"

\* ------------------------------------------------------------------- C10
\* C10: a call of invert changes neither the inverse data (variable id,
\* offset, equality list, non-equality list) nor the raw solver result, and
\* calling invert again with the same raw result and inverse data gives an
\* equal result.
C10_InvertFrame ==
    [][ (pc \in {"solved", "inverted", "invert_raised"} /\ solver_calls' = solver_calls) =>
            (/\ applied' = applied
             /\ solution' = solution
             /\ (pc # "solved" => result' = result /\ pc' = pc)) ]_vars

C10_Witness == pc = "inverted" /\ solver_calls = 2 /\ Sol.dual_vars # None

====
